---- MODULE Spec2Model ----
(***************************************************************************)
(* The sync job orchestrator of code-companion-backend: the in-memory job  *)
(* registry (syncJobService.ts), the job event channel                     *)
(* (syncEventEmitter.ts) and the incremental PR sync (githubService:       *)
(* syncRepoPRs, fetchPRsFromGitHub, fetchPRFiles, ingestPR).               *)
(*                                                                         *)
(* One action is one resumption of a job's flow: the code that runs from   *)
(* the return of one awaited call to the issue of the next one.  The       *)
(* awaited calls are the page listing, the store lookup, the file fetch,   *)
(* the ingest and the AllowedRepo update.  generateEmbedding never throws  *)
(* (it falls back to the deterministic embedding) and touches no shared    *)
(* state, so its await is folded into the ingest step; the two rate-limit  *)
(* delays read and write nothing and are folded into the step before them. *)
(***************************************************************************)
EXTENDS Integers, Sequences, FiniteSets, TLC

VARIABLES
    token,        \* env.GITHUB_TOKEN is configured
    remote,       \* the remote PR listing: PR number k is remote[k]
    store,        \* GitHubPR collection of the synced repo: PR number -> record
    store0,       \* the store at start-up (never changes)
    now,          \* Date.now()
    requests,     \* sync requests the clients have still to submit
    job,          \* the SyncJob objects, by job id
    syncJobs,     \* keys of the registry map syncJobs
    frame,        \* locals of each job's syncRepoPRs call and its position
    calls,        \* per job: the calls its sync has issued so far
    subs,         \* listeners registered on the channel, in order: <<listener, job id>>
    events,       \* per job: the events emitted on job:<id>, in order
    faults,       \* failing remote/store calls so far
    prCount,      \* AllowedRepo.prCount of the synced repo
    statusLog,    \* per job: every value its status field has been assigned
    returned,     \* per job: what startSyncJob's caller got when it returned
    terminal,     \* per job: the job object when its status first became terminal
    syncError,    \* per job: the message of the exception that escaped syncRepoPRs
    listenerThrew,\* per job: a listener threw while handling one of its events
    unhandled,    \* jobs whose runSyncInBackground promise was rejected
    delivered,    \* per listener: the events it was called with, in order
    prDocs,       \* GitHubPR collection as the ingestion calls see it: documents
    commitDocs,   \* GitHubCommit collection: documents
    ingests,      \* the ingestion calls made so far, each with its position
    prWrites,     \* the PR upserts the store has applied, in order
    apiKey,       \* env.GOOGLE_AI_API_KEY is configured
    query,        \* inputText of the analysis request, as tokens
    prPool,       \* the PRs an analysis searches, each with its similarity
    commitPool,   \* the commits an analysis searches
    ticketPool,   \* the tickets an analysis searches
    llm,          \* what the model does when it is invoked
    an,           \* the analysis request: its position, locals and response
    srch,         \* a search call: its arguments and the list it returned
    secret,       \* env.GITHUB_WEBHOOK_SECRET is configured
    hooks         \* the webhook requests received, each with its response

\* The state of the ingestion calls (webhook and manual ingest).
ingestVars == <<prDocs, commitDocs, ingests, prWrites>>

\* The state of an analysis request and of a search call.
analysisVars == <<apiKey, query, prPool, commitPool, ticketPool, llm, an, srch>>

\* The state of the webhook endpoint.
hookVars == <<secret, hooks>>

\* The state outside the sync jobs.
nonSyncVars == <<ingestVars, analysisVars, hookVars>>

vars == <<token, remote, store, store0, now, requests, job, syncJobs, frame,
          calls, subs, events, faults, prCount, statusLog, returned, terminal,
          syncError, listenerThrew, unhandled, delivered, prDocs, commitDocs,
          ingests, prWrites, apiKey, query, prPool, commitPool, ticketPool, llm,
          an, srch, secret, hooks>>

(***************************************************************************)
(* Bounds of the model.                                                    *)
(***************************************************************************)
\* Page size of the listing.  The source fetches 100 per page; the model
\* scales the page and states every claim relative to perPage.
perPage == 2
\* Sync requests submitted in one behaviour of Spec.
MaxJobs == 2
\* Failing calls in one behaviour.
MaxFaults == 1

\* Ingestion calls (webhook deliveries, manual ingests) in one behaviour.
MaxIngests == 2
\* Longest collection a search runs on.
MaxPool == 3

\* The retention of finished jobs, in clock ticks.  The source keeps them
\* for 60 * 60 * 1000 ms; the model scales the clock and states every claim
\* relative to JOB_RETENTION_MS.
JOB_RETENTION_MS == 2
\* The clock stops here.
MaxTime == 7

JobIds == 1..MaxJobs
Listeners == {"l1"}
\* The listeners of the runs that are about the channel itself.
Viewers == {"l1", "l2"}
\* Longest listing of arbitrary PRs, and of PRs that are all new.
MixedPRs == perPage + 1
MaxPRs == 2 * perPage + 1
PRNumbers == 1..MaxPRs
Limits == 0..(perPage + 1)

(***************************************************************************)
(* Data.                                                                   *)
(***************************************************************************)
Min(a, b) == IF a < b THEN a ELSE b
First(S) == CHOOSE i \in S : \A k \in S : i <= k

\* A persisted PR; present = FALSE is findOne's null.
\* An unset date (completedAt before completion, a record without updatedAt).
NoDate == 0
Rec(at, st) == [present |-> TRUE, updatedAt |-> at, state |-> st]
Absent == [present |-> FALSE, updatedAt |-> NoDate, state |-> "open"]

\* Error messages and job messages.
Msg(kind, pr) == [kind |-> kind, pr |-> pr]
NoMsg == Msg("undefined", 0)
TokenError == Msg("GITHUB_TOKEN is required for GitHub API access", 0)
ApiError == Msg("GitHub API error", 0)
ListenerError == Msg("listener error", 0)
PRError(k) == Msg("Failed to sync PR", k)

(***************************************************************************)
(* syncRepoPRs: the pure part of the loop.                                 *)
(***************************************************************************)
\* The page-th page of the listing, perPage PR numbers per page.
PageOf(listing, page) ==
    LET lo == (page - 1) * perPage + 1
        hi == Min(page * perPage, Len(listing))
    IN  IF hi < lo THEN << >> ELSE [i \in 1..(hi - lo + 1) |-> lo + i - 1]

\* needsUpdate with >= for >: a record as new as the remote PR is updated.
needsUpdateNotOlder(existing, pr) ==
    \/ ~existing.present
    \/ existing.updatedAt # NoDate /\ pr.updated_at >= existing.updatedAt
    \/ pr.merged_at /\ existing.state # "merged"

\* needsUpdate taking a record without updatedAt for an old one.
needsUpdateMissingDate(existing, pr) ==
    \/ ~existing.present
    \/ pr.updated_at > existing.updatedAt
    \/ pr.merged_at /\ existing.state # "merged"

\* needsUpdate of a remote PR against the record findOne returned.
needsUpdate(existing, pr) ==
    \/ ~existing.present
    \/ existing.updatedAt # NoDate /\ pr.updated_at > existing.updatedAt
    \/ pr.merged_at /\ existing.state # "merged"

\* The locals of syncRepoPRs at its first await.
InitFrame ==
    [pc |-> "fetchPage", page |-> 1, prs |-> << >>, idx |-> 0,
     processed |-> 0, updated |-> 0, skipped |-> 0, errors |-> << >>,
     pageSkipped |-> 0, keepFetching |-> TRUE, stoppedEarly |-> FALSE,
     existing |-> Absent, isUpdate |-> FALSE]

\* AfterPage without the early stop on a page of skipped PRs.
AfterPageNoEarlyStop(f) ==
    IF Len(f.prs) < perPage
    THEN [f EXCEPT !.keepFetching = FALSE, !.pc = "return"]
    ELSE [f EXCEPT !.page = @ + 1,
                   !.pc = IF f.keepFetching THEN "fetchPage" ELSE "return"]

\* After the for loop over a page: early stop, last page, or next page.
AfterPage(f) ==
    IF f.pageSkipped = Len(f.prs) /\ Len(f.prs) > 0
    THEN [f EXCEPT !.stoppedEarly = TRUE, !.keepFetching = FALSE, !.pc = "return"]
    ELSE IF Len(f.prs) < perPage
    THEN [f EXCEPT !.keepFetching = FALSE, !.pc = "return"]
    ELSE [f EXCEPT !.page = @ + 1,
                   !.pc = IF f.keepFetching THEN "fetchPage" ELSE "return"]

\* LoopHead without fetchAll: limit 0 is taken for a budget of 0.
LoopHeadNoFetchAll(f, limit) ==
    IF f.idx > Len(f.prs)
    THEN AfterPage(f)
    ELSE IF f.processed + f.skipped >= limit
    THEN AfterPage([f EXCEPT !.keepFetching = FALSE])
    ELSE [f EXCEPT !.pc = "lookup"]

\* The head of the for loop: the budget check, then the lookup of prs[idx].
LoopHead(f, limit) ==
    IF f.idx > Len(f.prs)
    THEN AfterPage(f)
    ELSE IF limit # 0 /\ f.processed + f.skipped >= limit
    THEN AfterPage([f EXCEPT !.keepFetching = FALSE])
    ELSE [f EXCEPT !.pc = "lookup"]

\* A page arrived: an empty page ends the loop, else the for loop starts.
GotPage(f, prs, limit) ==
    IF Len(prs) = 0
    THEN [f EXCEPT !.prs = prs, !.pc = "return"]
    ELSE LoopHead([f EXCEPT !.prs = prs, !.idx = 1, !.pageSkipped = 0], limit)

\* findOne returned: skip and go on, or go and fetch the files.
GotExisting(f, existing, pr, limit) ==
    IF existing.present /\ ~needsUpdate(existing, pr)
    THEN LoopHead([f EXCEPT !.skipped = @ + 1, !.pageSkipped = @ + 1,
                            !.idx = @ + 1, !.existing = existing], limit)
    ELSE [f EXCEPT !.existing = existing,
                   !.isUpdate = existing.present /\ needsUpdate(existing, pr),
                   !.pc = "fetchFiles"]

\* findOne threw: the catch of the loop body records the error.
LookupThrew(f, k, limit) ==
    LoopHead([f EXCEPT !.errors = Append(@, PRError(k)), !.idx = @ + 1], limit)

\* AfterIngest counting an updated PR as processed too.
AfterIngestCountsBoth(f, limit) ==
    LoopHead([f EXCEPT !.updated = IF f.isUpdate THEN @ + 1 ELSE @,
                       !.processed = @ + 1,
                       !.idx = @ + 1], limit)

\* ingestPR returned (its result is not looked at): count and go on.
AfterIngest(f, limit) ==
    LoopHead([f EXCEPT !.updated = IF f.isUpdate THEN @ + 1 ELSE @,
                       !.processed = IF f.isUpdate THEN @ ELSE @ + 1,
                       !.idx = @ + 1], limit)

\* The summary message of the result.
Summary(f) ==
    IF f.processed + f.updated = 0 /\ f.skipped > 0 THEN Msg("All already synced", f.skipped)
    ELSE IF f.stoppedEarly THEN Msg("Stopped early", f.processed)
    ELSE Msg("Synced", f.processed)

\* An upsert that does not record the merge.
UpsertedOpen(pr, t) == Rec(t, "open")

\* ingestPR's upsert: the record findOneAndUpdate leaves for a remote PR.
Upserted(pr, t) == Rec(t, IF pr.merged_at THEN "merged" ELSE "open")

(***************************************************************************)
(* syncJobService: the job object.                                         *)
(***************************************************************************)
\* The job startSyncJob creates.
NewJob(limit, t) ==
    [limit |-> limit, status |-> "pending",
     progress |-> [processed |-> 0, updated |-> 0, skipped |-> 0, errors |-> << >>],
     message |-> NoMsg, startedAt |-> t, completedAt |-> NoDate]

\* runSyncInBackground, after syncRepoPRs returned.
JobCompleted(jb, f, t) ==
    [jb EXCEPT !.progress = [processed |-> f.processed, updated |-> f.updated,
                             skipped |-> f.skipped, errors |-> f.errors],
               !.message = Summary(f),
               !.status = "completed",
               !.completedAt = t]

\* The catch without the status assignment.
JobFailedKeepsStatus(jb, msg, t) ==
    [jb EXCEPT !.completedAt = t,
               !.message = msg,
               !.progress.errors = Append(@, msg)]

\* The catch recording 'Sync failed' whatever was thrown.
JobFailedGenericMessage(jb, msg, t) ==
    [jb EXCEPT !.status = "failed",
               !.completedAt = t,
               !.message = Msg("Sync failed", 0),
               !.progress.errors = Append(@, Msg("Sync failed", 0))]

\* runSyncInBackground's catch.
JobFailed(jb, msg, t) ==
    [jb EXCEPT !.status = "failed",
               !.completedAt = t,
               !.message = msg,
               !.progress.errors = Append(@, msg)]

\* The ids of the jobs created so far.
Started == 1..Len(job)

\* The listeners of job:<j>, in the order they were registered.
ListenersOf(j) ==
    LET OnJob(s) == s[2] = j
        regs == SelectSeq(subs, OnJob)
    IN  [i \in 1..Len(regs) |-> regs[i][1]]

Subscribed(j) == {ListenersOf(j)[i] : i \in 1..Len(ListenersOf(j))}

\* An event as emitted on job:<id>, with the listeners registered then.
Event(type, j, jb) == [type |-> type, status |-> jb.status, listeners |-> Subscribed(j)]

\* An emit that calls every listener of the channel, whatever it is
\* registered on.
CalledEveryone(j, n) == Viewers

\* emit() calls the listeners of the event in registration order; when the
\* n-th throws, emit throws and those after it are not called (n = 0: none
\* throws).
Called(j, n) ==
    {ListenersOf(j)[i] : i \in 1..(IF n = 0 THEN Len(ListenersOf(j)) ELSE n)}

Deliver(d, j, type, n) ==
    [l \in DOMAIN d |->
        IF l \in Called(j, n) THEN Append(d[l], [job |-> j, type |-> type]) ELSE d[l]]

(***************************************************************************)
(* analysisService and embeddingService: the similarity searches.          *)
(* Similarities, thresholds and confidences are counted in tenths.  A      *)
(* document of a collection is given with the similarity cosineSimilarity  *)
(* yields for it against the query; documents are numbered by their place  *)
(* in the collection.                                                      *)
(***************************************************************************)
\* Similarities of the documents: below, at and above the threshold 0.3.
Sims == {2, 3, 4}
\* The threshold analyzeError searches with: 0.3.
SEARCH_THRESHOLD == 3

Doc(sim) == [sim |-> sim, embedded |-> TRUE]
\* A document whose embedding is missing or empty.
NoEmbedding == [sim |-> 0, embedded |-> FALSE]
PoolDocs == {Doc(sim) : sim \in Sims} \cup {NoEmbedding}
Pools(n) == UNION {[1..m -> PoolDocs] : m \in 0..n}

\* The documents with an embedding, mapped to { ...doc, similarity }.
WithSimilarity(pool) ==
    LET HasEmbedding(d) == d.embedded
        docs == [i \in 1..Len(pool) |->
                    [id |-> i, sim |-> pool[i].sim, embedded |-> pool[i].embedded]]
        kept == SelectSeq(docs, HasEmbedding)
    IN  [i \in 1..Len(kept) |-> [id |-> kept[i].id, sim |-> kept[i].sim]]

\* An insertion in ascending order of similarity.
InsertAsc(sorted, d) ==
    LET k == Cardinality({i \in 1..Len(sorted) : sorted[i].sim <= d.sim})
    IN  SubSeq(sorted, 1, k) \o <<d>> \o SubSeq(sorted, k + 1, Len(sorted))

\* sort((a, b) => b.similarity - a.similarity) is a stable sort: d goes
\* behind the documents that are as similar as it is or more.
InsertDesc(sorted, d) ==
    LET k == Cardinality({i \in 1..Len(sorted) : sorted[i].sim >= d.sim})
    IN  SubSeq(sorted, 1, k) \o <<d>> \o SubSeq(sorted, k + 1, Len(sorted))

RECURSIVE SortDesc(_)
SortDesc(docs) ==
    IF docs = << >> THEN << >>
    ELSE InsertDesc(SortDesc(SubSeq(docs, 1, Len(docs) - 1)), docs[Len(docs)])

\* slice(0, limit), for a limit that is not negative.
Slice(docs, limit) == SubSeq(docs, 1, Min(limit, Len(docs)))

\* searchSimilarPRs, searchSimilarCommits, searchSimilarTickets: find the
\* documents with an embedding, map, filter, sort, slice.
searchSimilar(pool, threshold, limit) ==
    LET Qualifies(d) == d.sim >= threshold
    IN  Slice(SortDesc(SelectSeq(WithSimilarity(pool), Qualifies)), limit)

\* findSimilarByEmbedding: filter the documents with an embedding, map,
\* filter, sort, slice.
findSimilarByEmbedding(documents, threshold, limit) ==
    LET Qualifies(d) == d.sim >= threshold
    IN  Slice(SortDesc(SelectSeq(WithSimilarity(documents), Qualifies)), limit)

SearchFunctions ==
    {"searchSimilarPRs", "searchSimilarCommits", "searchSimilarTickets",
     "findSimilarByEmbedding"}

\* A search call and the list it returned; fn = "none": no call yet.
SearchCall(fn, threshold, limit, out) ==
    [fn |-> fn, threshold |-> threshold, limit |-> limit, out |-> out]
NoSearch == SearchCall("none", 0, 0, << >>)

(***************************************************************************)
(* analysisService.analyzeError: the limit a request names.                *)
(***************************************************************************)
DEFAULT_LIMIT == 10
LIMIT_CAP == 50
TICKET_LIMIT == 10
\* The limit searchSimilarTickets takes when it is passed none.
TICKET_DEFAULT_LIMIT == 5

\* The text as tokens: runs of digits and words.
Num(n) == [digits |-> TRUE, n |-> n, w |-> ""]
Word(w) == [digits |-> FALSE, n |-> 0, w |-> w]

\* The words the alternation prs?|pull requests?|commits?|items?|results?
\* matches the start of, among the words of Queries.
UnitWords == {"prs", "commits", "items", "process"}

Queries ==
    { <<Word("login"), Word("fails")>>,
      <<Word("error"), Num(404), Word("login")>>,
      <<Word("show"), Num(1), Word("prs")>>,
      <<Num(7), Word("commits")>>,
      <<Num(50), Word("items")>>,
      <<Num(51), Word("prs")>>,
      <<Num(0), Word("prs")>>,
      <<Num(3), Word("bugs"), Num(5), Word("prs")>> }

\* inputText.match(/(\d+)\s*(?:prs?|...)/i): the places of the text where
\* digits are followed by a unit; the match is the leftmost.
MatchPlaces(text) ==
    {i \in 1..(Len(text) - 1) : text[i].digits /\ text[i + 1].w \in UnitWords}

\* The limit of the request: the default, or the number matched when it is
\* positive and at most the cap.
RequestLimit(text) ==
    IF MatchPlaces(text) = {} THEN DEFAULT_LIMIT
    ELSE LET requestedLimit == text[First(MatchPlaces(text))].n
         IN  IF requestedLimit > 0 /\ requestedLimit <= LIMIT_CAP
             THEN requestedLimit ELSE DEFAULT_LIMIT

(***************************************************************************)
(* llmService.analyzeWithLLM.                                              *)
(***************************************************************************)
Statuses == {"fixed", "not_fixed", "partially_fixed", "unknown"}
\* Confidence 0.3 of the fallback, in tenths.
FALLBACK_CONFIDENCE == 3
\* A number that a JSON value does not hold.
NoNumber == -1

\* A JSON value: an AnalysisResult as the model writes it, or another shape.
ModelResult(status, confidence) ==
    [shape |-> "AnalysisResult", status |-> status, confidence |-> confidence,
     relatedPRs |-> << >>, relatedCommits |-> << >>, relatedTickets |-> << >>]
OtherShape == [ModelResult("undefined", NoNumber) EXCEPT !.shape = "other"]

\* The response text: whether it sits in a ``` fence, whether what is left
\* is JSON, and the value it then denotes.
Text(fenced, json, value) ==
    [throws |-> FALSE, fenced |-> fenced, json |-> json, value |-> value]
\* generateContent rejects, or response.text() throws.
Throws == [Text(FALSE, FALSE, OtherShape) EXCEPT !.throws = TRUE]

LLMOutcomes ==
    { Throws,
      Text(FALSE, TRUE, ModelResult("fixed", 9)),
      Text(TRUE, TRUE, ModelResult("not_fixed", 5)),
      Text(FALSE, FALSE, OtherShape),
      Text(TRUE, FALSE, OtherShape),
      Text(FALSE, TRUE, OtherShape),
      Text(FALSE, TRUE, ModelResult("resolved", 15)) }

\* JSON.parse(responseText), and on a SyntaxError JSON.parse of what the
\* first ``` fence holds; ok = FALSE: the parse error is thrown.
ParseResponse(text) ==
    IF ~text.fenced /\ text.json
    THEN [ok |-> TRUE, value |-> text.value]
    ELSE IF text.fenced /\ text.json
    THEN [ok |-> TRUE, value |-> text.value]
    ELSE [ok |-> FALSE, value |-> OtherShape]

\* A fallback that lists no matches.
buildFallbackEmpty(matchedPRs, matchedCommits, matchedTickets) ==
    [ModelResult("unknown", FALLBACK_CONFIDENCE) EXCEPT !.shape = "fallback"]

\* buildFallbackAnalysis: unknown, 0.3, and the matches mapped one by one.
buildFallbackAnalysis(matchedPRs, matchedCommits, matchedTickets) ==
    [shape |-> "fallback", status |-> "unknown", confidence |-> FALLBACK_CONFIDENCE,
     relatedPRs |-> [i \in 1..Len(matchedPRs) |->
                        [id |-> matchedPRs[i].id, relevanceScore |-> matchedPRs[i].sim]],
     relatedCommits |-> [i \in 1..Len(matchedCommits) |-> [id |-> matchedCommits[i].id]],
     relatedTickets |-> [i \in 1..Len(matchedTickets) |-> [id |-> matchedTickets[i].id]]]

\* The try block of analyzeWithLLM and its catch: getGenAI throws without
\* the key, the invocation may throw, the parse may throw; what parses is
\* returned as it is.
analyzeWithLLM(key, outcome, matchedPRs, matchedCommits, matchedTickets) ==
    IF ~key \/ outcome.throws \/ ~ParseResponse(outcome).ok
    THEN buildFallbackAnalysis(matchedPRs, matchedCommits, matchedTickets)
    ELSE ParseResponse(outcome).value

(***************************************************************************)
(* analysisController.analyze.                                             *)
(***************************************************************************)
\* The analysis the handler answers with when nothing is synced.
NoDataAnalysis == [ModelResult("unknown", 0) EXCEPT !.shape = "no data"]
NoAnalysis == [ModelResult("undefined", NoNumber) EXCEPT !.shape = "none"]

\* The status of the handler's catch for an error that is no ZodError.
analyzeCatch(message) ==
    IF message = "GOOGLE_AI_API_KEY is not configured" THEN 503
    ELSE IF message \in {"quota", "rate limit"} THEN 429
    ELSE 500

\* The request before the handler runs.
IdleRequest ==
    [pc |-> "idle", limit |-> 0, ticketLimit |-> 0, prs |-> << >>, commits |-> << >>,
     tickets |-> << >>, result |-> NoAnalysis, http |-> 0, analysis |-> NoAnalysis]

(***************************************************************************)
(* Start-up states.                                                        *)
(***************************************************************************)
\* Remote PRs were all last updated at time 2; the clock starts at 3.
RemotePR(merged) == [updated_at |-> 2, merged_at |-> merged]
\* A PR at start-up, <<remote PR, persisted record>>: not persisted (open or
\* merged), persisted before its last update, persisted before its merge,
\* persisted and unchanged (open or merged).
StartPRs ==
    { <<RemotePR(FALSE), Absent>>, <<RemotePR(TRUE), Absent>>,
      <<RemotePR(FALSE), Rec(1, "open")>>, <<RemotePR(TRUE), Rec(2, "open")>>,
      <<RemotePR(FALSE), Rec(2, "open")>>, <<RemotePR(TRUE), Rec(2, "merged")>> }
NewPRs == {w \in StartPRs : ~w[2].present}

\* The start-up worlds: up to MixedPRs PRs of any kind, or up to n new PRs.
Worlds(n) ==
    UNION {[1..m -> StartPRs] : m \in 0..Min(n, MixedPRs)}
    \cup UNION {[1..m -> NewPRs] : m \in 0..n}

\* The calls a sync has made: numbers of listing fetches, lookups and writes,
\* and the PRs it found the record of, skipped, fetched the files of,
\* embedded, wrote, and those whose file fetch or upsert failed.
ZeroCalls == [pages |-> 0, lookups |-> 0, writes |-> 0, lookedPRs |-> {},
              skippedPRs |-> {}, fetchedPRs |-> {}, embeddedPRs |-> {},
              writtenPRs |-> {}, failedPRs |-> {}]
NotYet == [set |-> FALSE, job |-> NewJob(0, 0)]

\* No ingestion call has been made and the collections are empty.
IngestIdle ==
    /\ prDocs = << >>
    /\ commitDocs = << >>
    /\ ingests = << >>
    /\ prWrites = << >>

\* No analysis is requested and no search is called.
AnalysisIdle ==
    /\ apiKey = TRUE
    /\ query = << >>
    /\ prPool = << >>
    /\ commitPool = << >>
    /\ ticketPool = << >>
    /\ llm = Throws
    /\ an = IdleRequest
    /\ srch = NoSearch

\* No webhook request has been received.
HookIdle ==
    /\ secret = FALSE
    /\ hooks = << >>

InitWith(worlds, njobs) ==
    /\ IngestIdle
    /\ AnalysisIdle
    /\ HookIdle
    /\ token \in BOOLEAN
    /\ \E w \in worlds :
          /\ remote = [k \in 1..Len(w) |-> w[k][1]]
          /\ store0 = [k \in PRNumbers |-> IF k <= Len(w) THEN w[k][2] ELSE Absent]
    /\ store = store0
    /\ now = 3
    /\ requests = njobs
    /\ job = << >>
    /\ syncJobs = {}
    /\ frame = << >>
    /\ calls = << >>
    /\ subs = << >>
    /\ events = << >>
    /\ faults = 0
    /\ prCount = 0
    /\ statusLog = << >>
    /\ returned = << >>
    /\ terminal = << >>
    /\ syncError = << >>
    /\ listenerThrew = << >>
    /\ unhandled = {}
    /\ delivered = [l \in Viewers |-> << >>]

\* The variables of the sync jobs, but for the clock and the fault count.
jobVars == <<token, remote, store, store0, requests, job, syncJobs, frame, calls,
             subs, events, prCount, statusLog, returned, terminal, syncError,
             listenerThrew, unhandled, delivered>>

\* No sync is requested: the registry is empty and stays so.
SyncIdle ==
    /\ token = TRUE
    /\ remote = << >>
    /\ store0 = [k \in PRNumbers |-> Absent]
    /\ store = store0
    /\ requests = 0
    /\ job = << >>
    /\ syncJobs = {}
    /\ frame = << >>
    /\ calls = << >>
    /\ subs = << >>
    /\ events = << >>
    /\ prCount = 0
    /\ statusLog = << >>
    /\ returned = << >>
    /\ terminal = << >>
    /\ syncError = << >>
    /\ listenerThrew = << >>
    /\ unhandled = {}
    /\ delivered = [l \in Viewers |-> << >>]

(***************************************************************************)
(* runSyncInBackground around syncRepoPRs.                                 *)
(***************************************************************************)
\* The catch writing the message to a field all jobs share.
CatchSharedMessage(j, jb, msg, evs, log, dlv) ==
    \E n \in 0..Len(ListenersOf(j)) :
        /\ job' = [i \in DOMAIN job |->
                      IF i = j THEN JobFailed(jb, msg, now)
                      ELSE [job[i] EXCEPT !.message = msg]]
        /\ statusLog' = [statusLog EXCEPT ![j] = Append(log, "failed")]
        /\ events' = [events EXCEPT ![j] = Append(evs, Event("failed", j, job'[j]))]
        /\ delivered' = Deliver(dlv, j, "failed", n)
        /\ terminal' = [terminal EXCEPT ![j] = IF jb.status = "completed"
                                                THEN [set |-> TRUE, job |-> jb]
                                                ELSE [set |-> TRUE, job |-> job'[j]]]
        /\ listenerThrew' = [listenerThrew EXCEPT
                                ![j] = @ \/ n > 0 \/ msg = ListenerError]
        /\ unhandled' = IF n > 0 THEN unhandled \cup {j} ELSE unhandled

\* The catch of runSyncInBackground for job j, entered with message msg
\* from the job object jb: the job fails, failed is emitted, and a listener
\* that throws there rejects the promise nobody awaits.
Catch(j, jb, msg, evs, log, dlv) ==
    \E n \in 0..Len(ListenersOf(j)) :
        /\ job' = [job EXCEPT ![j] = JobFailed(jb, msg, now)]
        /\ statusLog' = [statusLog EXCEPT ![j] = Append(log, "failed")]
        /\ events' = [events EXCEPT ![j] = Append(evs, Event("failed", j, job'[j]))]
        /\ delivered' = Deliver(dlv, j, "failed", n)
        /\ terminal' = [terminal EXCEPT ![j] = IF jb.status = "completed"
                                                THEN [set |-> TRUE, job |-> jb]
                                                ELSE [set |-> TRUE, job |-> job'[j]]]
        /\ listenerThrew' = [listenerThrew EXCEPT
                                ![j] = @ \/ n > 0 \/ msg = ListenerError]
        /\ unhandled' = IF n > 0 THEN unhandled \cup {j} ELSE unhandled

\* syncRepoPRs threw msg.
SyncThrew(j, msg) ==
    /\ frame' = [frame EXCEPT ![j].pc = "done"]
    /\ syncError' = [syncError EXCEPT ![j] = msg]
    /\ Catch(j, job[j], msg, events[j], statusLog[j], delivered)

\* syncRepoPRs returned with the locals f: the job completes, completed is
\* emitted inside the try, then the AllowedRepo update is awaited; a
\* listener that throws on completed sends the flow into the catch.
SyncReturned(j, f) ==
    LET done == JobCompleted(job[j], f, now)
        evs  == Append(events[j], Event("completed", j, done))
        log  == Append(statusLog[j], "completed")
    IN  /\ UNCHANGED syncError
        /\ \/ /\ frame' = [frame EXCEPT ![j] = [f EXCEPT !.pc = "allowedRepo"]]
              /\ job' = [job EXCEPT ![j] = done]
              /\ statusLog' = [statusLog EXCEPT ![j] = log]
              /\ events' = [events EXCEPT ![j] = evs]
              /\ delivered' = Deliver(delivered, j, "completed", 0)
              /\ terminal' = [terminal EXCEPT ![j] = [set |-> TRUE, job |-> done]]
              /\ UNCHANGED <<listenerThrew, unhandled>>
           \/ \E n \in 1..Len(ListenersOf(j)) :
                 /\ frame' = [frame EXCEPT ![j] = [f EXCEPT !.pc = "done"]]
                 /\ Catch(j, done, ListenerError, evs, log,
                          Deliver(delivered, j, "completed", n))

\* The flow of job j goes on from the locals f: to the next await, or out
\* of syncRepoPRs.
Resume(j, f) ==
    IF f.pc = "return"
    THEN SyncReturned(j, f)
    ELSE /\ frame' = [frame EXCEPT ![j] = f]
         /\ UNCHANGED <<job, statusLog, events, terminal, syncError, listenerThrew,
                       unhandled, delivered>>

(***************************************************************************)
(* Actions.                                                                *)
(***************************************************************************)
\* startSyncJob(owner, repo, limit), called by syncPRs: the job is stored,
\* runSyncInBackground runs up to its first await (the page listing), and
\* the job is returned and its status reported with 202.
StartSyncJob(limit) ==
    LET j  == Len(job) + 1
        jb == [NewJob(limit, now) EXCEPT !.status = "running"]
    IN  /\ requests > 0
        /\ requests' = requests - 1
        /\ job' = Append(job, jb)
        /\ syncJobs' = syncJobs \cup {j}
        /\ statusLog' = Append(statusLog, <<NewJob(limit, now).status, jb.status>>)
        /\ events' = Append(events, <<Event("started", j, jb)>>)
        /\ delivered' = Deliver(delivered, j, "started", 0)
        /\ frame' = Append(frame, InitFrame)
        /\ calls' = Append(calls, ZeroCalls)
        /\ returned' = Append(returned, [job |-> jb, stored |-> j \in syncJobs',
                                         awaiting |-> InitFrame.pc])
        /\ terminal' = Append(terminal, NotYet)
        /\ syncError' = Append(syncError, NoMsg)
        /\ listenerThrew' = Append(listenerThrew, FALSE)
        /\ UNCHANGED <<nonSyncVars, token, remote, store, store0, now, subs, faults, prCount, unhandled>>

\* fetchPRsFromGitHub returns a page, or throws.
FetchPage(j) ==
    LET f == frame[j] IN
    /\ f.pc = "fetchPage"
    /\ \/ /\ ~token
          /\ SyncThrew(j, TokenError)
          /\ UNCHANGED <<calls, faults>>
       \/ /\ token
          /\ faults < MaxFaults
          /\ faults' = faults + 1
          /\ calls' = [calls EXCEPT ![j].pages = @ + 1]
          /\ SyncThrew(j, ApiError)
       \/ /\ token
          /\ calls' = [calls EXCEPT ![j].pages = @ + 1]
          /\ Resume(j, GotPage(f, PageOf(remote, f.page), job[j].limit))
          /\ UNCHANGED faults
    /\ UNCHANGED <<nonSyncVars, token, remote, store, store0, now, requests, syncJobs, subs,
                   prCount, returned>>

\* GitHubPR.findOne returns the record of prs[idx], or throws.
Lookup(j) ==
    LET f == frame[j]
        k == f.prs[f.idx]
    IN
    /\ f.pc = "lookup"
    /\ \/ /\ faults < MaxFaults
          /\ faults' = faults + 1
          /\ calls' = [calls EXCEPT ![j].lookups = @ + 1]
          /\ Resume(j, LookupThrew(f, k, job[j].limit))
       \/ LET g == GotExisting(f, store[k], remote[k], job[j].limit) IN
          /\ UNCHANGED faults
          /\ calls' = [calls EXCEPT
                ![j].lookups = @ + 1,
                ![j].lookedPRs = @ \cup {k},
                ![j].skippedPRs = IF g.skipped > f.skipped THEN @ \cup {k} ELSE @]
          /\ Resume(j, g)
    /\ UNCHANGED <<nonSyncVars, token, remote, store, store0, now, requests, syncJobs, subs,
                   prCount, returned>>

\* fetchPRFiles returns the files, or [] when the fetch failed; ingestPR is
\* called and asks for the embedding.
FetchFiles(j) ==
    LET f == frame[j]
        k == f.prs[f.idx]
    IN
    /\ f.pc = "fetchFiles"
    /\ \E ok \in BOOLEAN :
          /\ ~ok => faults < MaxFaults
          /\ faults' = IF ok THEN faults ELSE faults + 1
          /\ calls' = [calls EXCEPT ![j].fetchedPRs = @ \cup {k},
                                    ![j].embeddedPRs = @ \cup {k},
                                    ![j].failedPRs = IF ok THEN @ ELSE @ \cup {k}]
    /\ frame' = [frame EXCEPT ![j].pc = "ingest"]
    /\ UNCHANGED <<nonSyncVars, token, remote, store, store0, now, requests, job, syncJobs, subs,
                   events, prCount, statusLog, returned, terminal, syncError, listenerThrew,
                   unhandled, delivered>>

\* ingestPR's findOneAndUpdate upserts the record, or throws and ingestPR
\* returns success: false; either way the loop counts the PR and goes on.
Ingest(j) ==
    LET f == frame[j]
        k == f.prs[f.idx]
    IN
    /\ f.pc = "ingest"
    /\ \E ok \in BOOLEAN :
          /\ ~ok => faults < MaxFaults
          /\ faults' = IF ok THEN faults ELSE faults + 1
          /\ store' = IF ok THEN [store EXCEPT ![k] = Upserted(remote[k], now)]
                            ELSE store
          /\ calls' = [calls EXCEPT ![j].writes = IF ok THEN @ + 1 ELSE @,
                                    ![j].writtenPRs = IF ok THEN @ \cup {k} ELSE @,
                                    ![j].failedPRs = IF ok THEN @ ELSE @ \cup {k}]
    /\ Resume(j, AfterIngest(f, job[j].limit))
    /\ UNCHANGED <<nonSyncVars, token, remote, store0, now, requests, syncJobs, subs,
                   prCount, returned>>

\* AllowedRepo.findOneAndUpdate returns, or throws into the inner catch.
UpdateAllowedRepo(j) ==
    /\ frame[j].pc = "allowedRepo"
    /\ \E ok \in BOOLEAN :
          /\ ~ok => faults < MaxFaults
          /\ faults' = IF ok THEN faults ELSE faults + 1
          /\ prCount' = IF ok THEN prCount + job[j].progress.processed ELSE prCount
    /\ frame' = [frame EXCEPT ![j].pc = "done"]
    /\ UNCHANGED <<nonSyncVars, token, remote, store, store0, now, requests, job, syncJobs, calls,
                   subs, events, statusLog, returned, terminal, syncError, listenerThrew,
                   unhandled, delivered>>

\* A client that learned the job id registers a listener on job:<id>.
Subscribe(l, j) ==
    /\ \A i \in 1..Len(subs) : subs[i][1] # l
    /\ subs' = Append(subs, <<l, j>>)
    /\ UNCHANGED <<nonSyncVars, token, remote, store, store0, now, requests, job, syncJobs, frame,
                   calls, events, faults, prCount, statusLog, returned, terminal, syncError,
                   listenerThrew, unhandled, delivered>>

\* One resumption of the flow of job j.
JobStep(j) ==
    \/ FetchPage(j)
    \/ Lookup(j)
    \/ FetchFiles(j)
    \/ Ingest(j)
    \/ UpdateAllowedRepo(j)

Next ==
    \/ \E limit \in {0} : StartSyncJob(limit)
    \/ \E j \in Started : JobStep(j)
    \/ \E l \in Listeners, j \in Started : Subscribe(l, j)

Init == InitWith(Worlds(1), MaxJobs)

Spec == Init /\ [][Next]_vars

\* One sync run alone, on longer listings.
NextSync ==
    \/ \E limit \in Limits : StartSyncJob(limit)
    \/ \E j \in Started : JobStep(j)

InitSync == InitWith(Worlds(MaxPRs), 1)

SpecSync == InitSync /\ [][NextSync]_vars

\* The event loop keeps running: while some flow waits for a call that has
\* returned or thrown, one of the waiting flows is resumed.
SomeJobStep == \E j \in Started : JobStep(j)

\* Two jobs at once are what the fair runs look at.
InitFair == InitWith(Worlds(1), 2)

SpecFair == InitFair /\ [][Next]_vars /\ WF_vars(SomeJobStep)

\* A client that syncs the repo again once the sync before has finished.
StartNextSync(limit) ==
    /\ \A j \in Started : frame[j].pc = "done"
    /\ StartSyncJob(limit)

\* The limits of the repeated syncs: none, one PR, a page.
ResyncLimits == {0, 1, perPage}

NextResync ==
    \/ \E limit \in ResyncLimits : StartNextSync(limit)
    \/ \E j \in Started : JobStep(j)

\* The PRs of the repeated syncs: not persisted, persisted before the
\* merge, persisted and unchanged.
ResyncPRs ==
    { <<RemotePR(FALSE), Absent>>, <<RemotePR(TRUE), Rec(2, "open")>>,
      <<RemotePR(TRUE), Rec(2, "merged")>> }

\* A sync and a second one after it, of a listing of up to two pages.
InitResync == InitWith(UNION {[1..m -> ResyncPRs] : m \in 0..MixedPRs}, 2)

SpecResync == InitResync /\ [][NextResync]_vars

\* Every pair of a remote PR and what the store holds for it: no record, or
\* a record of any state without updatedAt, older than the remote PR, as
\* old, or newer.
ClassifyPRs ==
    {<<RemotePR(merged), Absent>> : merged \in BOOLEAN}
    \cup {<<RemotePR(merged), Rec(at, st)>> :
            merged \in BOOLEAN, at \in {NoDate, 1, 2, 3},
            st \in {"open", "closed", "merged"}}

\* One sync of a listing of one PR of any kind.
InitClassify == InitWith([1..1 -> ClassifyPRs], 1)

SpecClassify == InitClassify /\ [][NextSync]_vars

(***************************************************************************)
(* syncJobService: the registry sweep.                                     *)
(***************************************************************************)
\* The sweep's test with the start of the job for its completion.
ExpiredSinceStart(jb, t) == t - jb.startedAt > JOB_RETENTION_MS

\* The sweep's test: the job has a completedAt more than the retention ago.
Expired(jb, t) == jb.completedAt # NoDate /\ t - jb.completedAt > JOB_RETENTION_MS

\* getSyncJob(jobId): the job of the registry, or undefined.
getSyncJob(j) == IF j \in syncJobs THEN job[j] ELSE NewJob(0, NoDate)

\* cleanupOldJobs, run by the interval timer.
cleanupOldJobs ==
    /\ syncJobs' = {j \in syncJobs : ~Expired(job[j], now)}
    /\ UNCHANGED <<nonSyncVars, token, remote, store, store0, now, requests, job, frame,
                   calls, subs, events, faults, prCount, statusLog, returned, terminal,
                   syncError, listenerThrew, unhandled, delivered>>

\* Time passes.
Tick ==
    /\ now < MaxTime
    /\ now' = now + 1
    /\ UNCHANGED <<nonSyncVars, token, remote, store, store0, requests, job, syncJobs,
                   frame, calls, subs, events, faults, prCount, statusLog, returned,
                   terminal, syncError, listenerThrew, unhandled, delivered>>

NextSweep ==
    \/ \E limit \in {0} : StartSyncJob(limit)
    \/ \E j \in Started : JobStep(j)
    \/ cleanupOldJobs
    \/ Tick

\* The jobs of the sweep runs work on an empty listing.
InitSweep == InitWith(Worlds(0), MaxJobs)

SpecSweep == InitSweep /\ [][NextSweep]_vars

\* The channel with several listeners: jobs on a listing of at most one PR.
NextChannel ==
    \/ \E limit \in {0} : StartSyncJob(limit)
    \/ \E j \in Started : JobStep(j)
    \/ \E l \in Viewers, j \in Started : Subscribe(l, j)

SpecChannel == Init /\ [][NextChannel]_vars

\* One job and the listeners that register on it, early or late.
InitSubscribe == InitWith(Worlds(1), 1)

SpecSubscribe == InitSubscribe /\ [][NextChannel]_vars

(***************************************************************************)
(* githubService: ingestion of PRs (ingestPR, handlePullRequestEvent).     *)
(* The collection is a list of documents, so that two documents of one key *)
(* can be told from one.  A call's payload is fixed when it is made; its   *)
(* steps are the awaited file fetch (webhook only) and the upsert, the     *)
(* embedding's await being folded into the step before the upsert.         *)
(***************************************************************************)
\* (prNumber, repoUrl) of the PRs the calls carry: one number in two repos.
PRKeys == {<<1, "r1">>, <<1, "r2">>}
Titles == {"t1", "t2"}
\* The only date a payload carries for a merge.
MergeDate == 1

\* A document as the schema's defaults make it.
NewPRDoc(key) ==
    [key |-> key, title |-> "", state |-> "open", mergedAt |-> NoDate,
     labels |-> << >>, updatedAt |-> NoDate]

\* The bodies of the manual ingest: prSchema.
IngestPRData == [key : PRKeys, title : Titles, mergedAt : {NoDate, MergeDate}]

\* The pull_request webhook payloads: an open, a closed and a merged PR of a
\* processed action, and one payload of an action that is not processed.
PRPayloads ==
    [action : {"opened"}, key : PRKeys, title : Titles,
     state : {"open", "closed"}, merged : {FALSE}, labels : {<<"bug">>}]
    \cup [action : {"closed"}, key : PRKeys, title : Titles,
          state : {"closed"}, merged : {TRUE}, labels : {<<"bug">>}]
    \cup [action : {"labeled"}, key : {<<1, "r1">>}, title : {"t1"},
          state : {"open"}, merged : {FALSE}, labels : {<<"bug">>}]

ProcessedActions == {"opened", "closed", "reopened", "edited", "synchronize"}

\* The update document of ingestPR; an undefined mergedAt is not written.
ingestPRUpdate(data, t) ==
    IF data.mergedAt # NoDate
    THEN [key |-> data.key, title |-> data.title, mergedAt |-> data.mergedAt,
          state |-> "merged", updatedAt |-> t]
    ELSE [key |-> data.key, title |-> data.title, state |-> "open", updatedAt |-> t]

\* The update document of handlePullRequestEvent.
handlePullRequestEventUpdate(p, t) ==
    LET state == IF p.merged THEN "merged"
                 ELSE IF p.state = "closed" THEN "closed" ELSE "open"
    IN  IF p.merged
        THEN [key |-> p.key, title |-> p.title, mergedAt |-> MergeDate,
              state |-> state, labels |-> p.labels, updatedAt |-> t]
        ELSE [key |-> p.key, title |-> p.title, state |-> state,
              labels |-> p.labels, updatedAt |-> t]

\* $set: the fields of the update replace those of the document.
SetFields(doc, upd) ==
    [n \in DOMAIN doc |-> IF n \in DOMAIN upd THEN upd[n] ELSE doc[n]]

\* The documents the filter { prNumber, repoUrl } matches.
Matching(docs, key) == {i \in 1..Len(docs) : docs[i].key = key}

\* findOneAndUpdate with a filter on prNumber alone.
findOneAndUpdateByNumber(docs, key, upd) ==
    LET same == {i \in 1..Len(docs) : docs[i].key[1] = key[1]} IN
    IF same # {}
    THEN [docs EXCEPT ![First(same)] = SetFields(@, upd)]
    ELSE Append(docs, SetFields(NewPRDoc(key), upd))

\* GitHubPR.findOneAndUpdate(filter, update, { upsert: true }): one store
\* operation that updates the matching document or inserts one.
findOneAndUpdate(docs, key, upd) ==
    IF Matching(docs, key) # {}
    THEN [docs EXCEPT ![First(Matching(docs, key))] = SetFields(@, upd)]
    ELSE Append(docs, SetFields(NewPRDoc(key), upd))

\* An ingestion call: the function, where it is, its payload, its result.
\* idx and errors are the loop index and the errors list of handlePushEvent.
Call(fn, pc, data, result) ==
    [fn |-> fn, pc |-> pc, data |-> data, result |-> result, idx |-> 1, errors |-> 0]
Ingests == 1..Len(ingests)

\* ingestPR(data) is called (by ingestData, or by a sync) and waits for the
\* embedding.
CallIngestPR(data) ==
    /\ Len(ingests) < MaxIngests
    /\ ingests' = Append(ingests, Call("ingestPR", "upsert", data, "none"))
    /\ UNCHANGED <<prDocs, commitDocs, prWrites, now, faults, jobVars, analysisVars, hookVars>>

\* handlePullRequestEvent(payload) is called by handleWebhook: an action
\* that is not processed returns at once, else the files are fetched.
CallHandlePullRequestEvent(p) ==
    /\ Len(ingests) < MaxIngests
    /\ ingests' = Append(ingests,
            IF p.action \in ProcessedActions
            THEN Call("handlePullRequestEvent", "fetchFiles", p, "none")
            ELSE Call("handlePullRequestEvent", "done", p, "ignored"))
    /\ UNCHANGED <<prDocs, commitDocs, prWrites, now, faults, jobVars, analysisVars, hookVars>>

\* fetchPRFiles returned (the files, or [] on a failure); the embedding is
\* asked for.
PRFilesFetched(c) ==
    /\ ingests[c].pc = "fetchFiles"
    /\ ingests' = [ingests EXCEPT ![c].pc = "upsert"]
    /\ UNCHANGED <<prDocs, commitDocs, prWrites, now, faults, jobVars, analysisVars, hookVars>>

\* The upsert of call c is applied by the store, or fails and is caught.
UpsertPR(c) ==
    LET cl  == ingests[c]
        upd == IF cl.fn = "ingestPR" THEN ingestPRUpdate(cl.data, now)
               ELSE handlePullRequestEventUpdate(cl.data, now)
    IN  /\ cl.pc = "upsert"
        /\ \/ /\ prDocs' = findOneAndUpdate(prDocs, cl.data.key, upd)
              /\ prWrites' = Append(prWrites, [call |-> c, upd |-> upd])
              /\ ingests' = [ingests EXCEPT ![c].pc = "done", ![c].result = "success"]
              /\ now' = now + 1
              /\ UNCHANGED faults
           \/ /\ faults < MaxFaults
              /\ faults' = faults + 1
              /\ ingests' = [ingests EXCEPT ![c].pc = "done", ![c].result = "failure"]
              /\ UNCHANGED <<prDocs, prWrites, now>>
        /\ UNCHANGED <<commitDocs, jobVars, analysisVars, hookVars>>

NextIngestPR ==
    \/ \E data \in IngestPRData : CallIngestPR(data)
    \/ \E p \in PRPayloads : CallHandlePullRequestEvent(p)
    \/ \E c \in Ingests : PRFilesFetched(c)
    \/ \E c \in Ingests : UpsertPR(c)

InitIngest == SyncIdle /\ IngestIdle /\ AnalysisIdle /\ HookIdle /\ now = 3 /\ faults = 0

SpecIngestPR == InitIngest /\ [][NextIngestPR]_vars

(***************************************************************************)
(* githubService: ingestion of commits (ingestCommit, handlePushEvent).    *)
(* Each commit is looked up with findOne and, when absent, created; the    *)
(* schema declares sha unique, so the store rejects a second document of   *)
(* one sha with a duplicate key error.                                     *)
(***************************************************************************)
SHAs == {"s1", "s2"}
\* The commits of a push payload.
Pushes == {<< >>, <<"s1">>, <<"s1", "s2">>, <<"s1", "s1">>}

HasCommit(docs, sha) == \E i \in 1..Len(docs) : docs[i].sha = sha

\* The sha call c is working on.
ShaOf(cl) == IF cl.fn = "ingestCommit" THEN cl.data ELSE cl.data[cl.idx]

\* handlePushEvent goes on after a commit: to the next commit's findOne, or
\* to its return, which reports the errors collected.
NextCommit(cl, failed) ==
    LET errors == IF failed THEN cl.errors + 1 ELSE cl.errors IN
    IF cl.idx < Len(cl.data)
    THEN [cl EXCEPT !.idx = @ + 1, !.errors = errors, !.pc = "findOne"]
    ELSE [cl EXCEPT !.errors = errors, !.pc = "done",
                    !.result = IF errors = 0 THEN "success" ELSE "failure"]

\* A call goes on after its commit was found, created (failed = FALSE) or
\* after the try block threw (failed = TRUE).
CommitDone(cl, failed) ==
    IF cl.fn = "ingestCommit"
    THEN [cl EXCEPT !.pc = "done", !.result = IF failed THEN "failure" ELSE "success"]
    ELSE NextCommit(cl, failed)

\* ingestCommit(data) is called and waits for findOne.
CallIngestCommit(sha) ==
    /\ Len(ingests) < MaxIngests
    /\ ingests' = Append(ingests, Call("ingestCommit", "findOne", sha, "none"))
    /\ UNCHANGED <<prDocs, commitDocs, prWrites, now, faults, jobVars, analysisVars, hookVars>>

\* handlePushEvent(payload) is called: no commits, and it returns at once.
CallHandlePushEvent(commits) ==
    /\ Len(ingests) < MaxIngests
    /\ ingests' = Append(ingests,
            IF Len(commits) = 0
            THEN Call("handlePushEvent", "done", commits, "success")
            ELSE Call("handlePushEvent", "findOne", commits, "none"))
    /\ UNCHANGED <<prDocs, commitDocs, prWrites, now, faults, jobVars, analysisVars, hookVars>>

\* GitHubCommit.findOne({ sha }) returns: an existing commit ends the work
\* on it, else the embedding is asked for and the create follows.
FindCommit(c) ==
    LET cl == ingests[c] IN
    /\ cl.pc = "findOne"
    /\ \/ /\ ingests' = [ingests EXCEPT ![c] =
                    IF HasCommit(commitDocs, ShaOf(cl))
                    THEN CommitDone(cl, FALSE)
                    ELSE [cl EXCEPT !.pc = "create"]]
          /\ UNCHANGED faults
       \/ /\ faults < MaxFaults
          /\ faults' = faults + 1
          /\ ingests' = [ingests EXCEPT ![c] = CommitDone(cl, TRUE)]
    /\ UNCHANGED <<prDocs, commitDocs, prWrites, now, jobVars, analysisVars, hookVars>>

\* GitHubCommit.create: the document is inserted, or the store rejects it
\* (the sha is there already, or the call fails) and the catch reports it.
CreateCommit(c) ==
    LET cl == ingests[c] IN
    /\ cl.pc = "create"
    /\ \/ /\ ~HasCommit(commitDocs, ShaOf(cl))
          /\ commitDocs' = Append(commitDocs, [sha |-> ShaOf(cl), call |-> c])
          /\ ingests' = [ingests EXCEPT ![c] = CommitDone(cl, FALSE)]
          /\ UNCHANGED faults
       \/ /\ HasCommit(commitDocs, ShaOf(cl))
          /\ ingests' = [ingests EXCEPT ![c] = CommitDone(cl, TRUE)]
          /\ UNCHANGED <<commitDocs, faults>>
       \/ /\ faults < MaxFaults
          /\ faults' = faults + 1
          /\ ingests' = [ingests EXCEPT ![c] = CommitDone(cl, TRUE)]
          /\ UNCHANGED commitDocs
    /\ UNCHANGED <<prDocs, prWrites, now, jobVars, analysisVars, hookVars>>

NextIngestCommit ==
    \/ \E sha \in SHAs : CallIngestCommit(sha)
    \/ \E commits \in Pushes : CallHandlePushEvent(commits)
    \/ \E c \in Ingests : FindCommit(c)
    \/ \E c \in Ingests : CreateCommit(c)

SpecIngestCommit == InitIngest /\ [][NextIngestCommit]_vars

(***************************************************************************)
(* githubController.handleWebhook and githubService.verifyWebhookSignature.*)
(* A request body is the JSON text as it was sent; express.json() parses   *)
(* it to a value and the handler serializes that value again.  A text is   *)
(* given by the value it denotes and by whether it is written the way      *)
(* JSON.stringify writes that value (compact) or otherwise (spaced).  An   *)
(* HMAC is given by the text it was computed over with the secret.         *)
(***************************************************************************)
\* Length of 'sha256=' followed by 64 hex digits.
SIGNATURE_LENGTH == 71

JsonText(value, compact) == [value |-> value, compact |-> compact]
\* express.json(): the value the text denotes.
JsonParse(text) == text.value
\* JSON.stringify(value).
JsonStringify(value) == JsonText(value, TRUE)

\* The value a request body denotes: the fields the handlers read.
HookPR ==
    [action |-> "opened", key |-> <<1, "r1">>, title |-> "t1",
     state |-> "open", merged |-> FALSE, labels |-> <<"bug">>]
Payload(zen, commits) == [zen |-> zen, pull_request |-> HookPR, commits |-> commits]

\* The x-hub-signature-256 header.
Signature(length, digest) == [present |-> TRUE, length |-> length, digest |-> digest]
NoSignature ==
    [present |-> FALSE, length |-> 0, digest |-> JsonText(Payload("none", << >>), TRUE)]
\* `sha256=${hmac.digest('hex')}` for the secret and the text.
HmacSha256(text) == Signature(SIGNATURE_LENGTH, text)

\* verifyWebhookSignature(payload, signature): timingSafeEqual throws on
\* buffers of different lengths, which is caught.
verifyWebhookSignature(payload, signature) ==
    IF ~secret THEN TRUE
    ELSE IF ~signature.present THEN FALSE
    ELSE IF signature.length # HmacSha256(payload).length THEN FALSE
    ELSE signature = HmacSha256(payload)

\* The requests' events and payloads: a pull_request event, a push event,
\* a ping and an event that is not processed.
HookPayloads ==
    { [event |-> "pull_request", payload |-> Payload("", << >>)],
      [event |-> "push", payload |-> Payload("", <<"s1">>)],
      [event |-> "ping", payload |-> Payload("zen", << >>)],
      [event |-> "issues", payload |-> Payload("", << >>)] }

\* The signatures a request for the text may carry: none, a string of
\* another length, the HMAC of the text as sent, the HMAC of the text as
\* JSON.stringify writes it, and the HMAC of something else.
SignaturesFor(text) ==
    { NoSignature,
      Signature(SIGNATURE_LENGTH - 1, text),
      HmacSha256(text),
      HmacSha256(JsonStringify(JsonParse(text))),
      HmacSha256(JsonText(Payload("other", << >>), TRUE)) }

WebhookRequests ==
    UNION { { [event |-> hp.event, body |-> JsonText(hp.payload, compact),
               signature |-> sig] :
                 sig \in SignaturesFor(JsonText(hp.payload, compact)) } :
            hp \in HookPayloads, compact \in BOOLEAN }

\* A request with the ingestion call it started (0: none) and its response
\* (status 0: not answered yet).
Hook(req, call, status, success) ==
    [req |-> req, call |-> call, status |-> status, success |-> success]
Hooks == 1..Len(hooks)

\* handlePullRequestEvent(payload) up to its first await.
StartPullRequestEvent(p) ==
    IF p.action \in ProcessedActions
    THEN Call("handlePullRequestEvent", "fetchFiles", p, "none")
    ELSE Call("handlePullRequestEvent", "done", p, "ignored")

\* handlePushEvent(payload) up to its first await.
StartPushEvent(commits) ==
    IF Len(commits) = 0
    THEN Call("handlePushEvent", "done", commits, "success")
    ELSE Call("handlePushEvent", "findOne", commits, "none")

\* POST /api/github/webhook: the signature is verified over
\* JSON.stringify(req.body); a request that fails is answered with 401,
\* a ping or another event with 200, and a pull_request or push event
\* starts its handler.
HandleWebhook(req) ==
    LET rawBody == JsonStringify(JsonParse(req.body))
        payload == JsonParse(req.body)
    IN  /\ Len(hooks) < MaxIngests
        /\ IF ~verifyWebhookSignature(rawBody, req.signature)
           THEN /\ hooks' = Append(hooks, Hook(req, 0, 401, FALSE))
                /\ UNCHANGED ingests
           ELSE IF req.event = "pull_request"
           THEN /\ ingests' = Append(ingests, StartPullRequestEvent(payload.pull_request))
                /\ hooks' = Append(hooks, Hook(req, Len(ingests) + 1, 0, FALSE))
           ELSE IF req.event = "push"
           THEN /\ ingests' = Append(ingests, StartPushEvent(payload.commits))
                /\ hooks' = Append(hooks, Hook(req, Len(ingests) + 1, 0, FALSE))
           ELSE /\ hooks' = Append(hooks, Hook(req, 0, 200, TRUE))
                /\ UNCHANGED ingests
        /\ UNCHANGED <<secret, prDocs, commitDocs, prWrites, now, faults, jobVars,
                       analysisVars>>

\* The handler of request h returned: the response reports its result.
WebhookRespond(h) ==
    /\ hooks[h].status = 0
    /\ ingests[hooks[h].call].pc = "done"
    /\ hooks' = [hooks EXCEPT ![h].status = 200,
                              ![h].success = ingests[hooks[h].call].result # "failure"]
    /\ UNCHANGED <<secret, ingestVars, now, faults, jobVars, analysisVars>>

NextWebhook ==
    \/ \E req \in WebhookRequests : HandleWebhook(req)
    \/ \E c \in Ingests : PRFilesFetched(c)
    \/ \E c \in Ingests : UpsertPR(c)
    \/ \E c \in Ingests : FindCommit(c)
    \/ \E c \in Ingests : CreateCommit(c)
    \/ \E h \in Hooks : WebhookRespond(h)

InitWebhook ==
    /\ SyncIdle /\ IngestIdle /\ AnalysisIdle /\ now = 3 /\ faults = 0
    /\ secret \in BOOLEAN
    /\ hooks = << >>

SpecWebhook == InitWebhook /\ [][NextWebhook]_vars

(***************************************************************************)
(* An analysis request: analyze, analyzeError, analyzeWithLLM.  The        *)
(* collections do not change while the request runs.                       *)
(***************************************************************************)
\* checkDataAvailability: some document has an embedding.
hasData ==
    \E pool \in {prPool, commitPool, ticketPool} :
        \E i \in 1..Len(pool) : pool[i].embedded

\* POST /api/analyze: the body is valid and checkDataAvailability returned;
\* without data the handler answers at once.
Analyze ==
    /\ an.pc = "idle"
    /\ an' = IF hasData
             THEN [an EXCEPT !.pc = "embed"]
             ELSE [an EXCEPT !.pc = "done", !.http = 200, !.analysis = NoDataAnalysis]
    /\ UNCHANGED <<apiKey, query, prPool, commitPool, ticketPool, llm, srch,
                   ingestVars, hookVars, now, faults, jobVars>>

\* analyzeError: generateEmbedding returned (the model's embedding, or the
\* deterministic one when it failed), the limit is read from the text and
\* the three searches are issued.
EmbedQuery ==
    /\ an.pc = "embed"
    /\ an' = [an EXCEPT !.pc = "search",
                         !.limit = RequestLimit(query),
                         !.ticketLimit = Min(RequestLimit(query), TICKET_LIMIT)]
    /\ UNCHANGED <<apiKey, query, prPool, commitPool, ticketPool, llm, srch,
                   ingestVars, hookVars, now, faults, jobVars>>

\* The three searches returned; analyzeWithLLM awaits getProjectContext.
SearchSimilar ==
    /\ an.pc = "search"
    /\ an' = [an EXCEPT
            !.pc = "context",
            !.prs = searchSimilar(prPool, SEARCH_THRESHOLD, an.limit),
            !.commits = searchSimilar(commitPool, SEARCH_THRESHOLD, an.limit),
            !.tickets = searchSimilar(ticketPool, SEARCH_THRESHOLD, an.ticketLimit)]
    /\ UNCHANGED <<apiKey, query, prPool, commitPool, ticketPool, llm, srch,
                   ingestVars, hookVars, now, faults, jobVars>>

\* getProjectContext returned and the try block of analyzeWithLLM ran, or
\* getProjectContext threw and the handler's catch answers.
Generate ==
    /\ an.pc = "context"
    /\ \/ /\ an' = [an EXCEPT
                    !.pc = "cache",
                    !.result = analyzeWithLLM(apiKey, llm, an.prs, an.commits,
                                              an.tickets)]
          /\ UNCHANGED faults
       \/ /\ faults < MaxFaults
          /\ faults' = faults + 1
          /\ an' = [an EXCEPT !.pc = "done", !.http = analyzeCatch("store error")]
    /\ UNCHANGED <<apiKey, query, prPool, commitPool, ticketPool, llm, srch,
                   ingestVars, hookVars, now, jobVars>>

\* AnalysisQuery.create returned or threw (which is only logged), and the
\* handler answers with the analysis.
CacheResult ==
    /\ an.pc = "cache"
    /\ \E ok \in BOOLEAN :
          /\ ~ok => faults < MaxFaults
          /\ faults' = IF ok THEN faults ELSE faults + 1
    /\ an' = [an EXCEPT !.pc = "done", !.http = 200, !.analysis = an.result]
    /\ UNCHANGED <<apiKey, query, prPool, commitPool, ticketPool, llm, srch,
                   ingestVars, hookVars, now, jobVars>>

NextAnalysis ==
    \/ Analyze
    \/ EmbedQuery
    \/ SearchSimilar
    \/ Generate
    \/ CacheResult

\* More matching tickets than searchSimilarTickets returns by default.
ManyTickets == [i \in 1..(TICKET_DEFAULT_LIMIT + 1) |-> Doc(SEARCH_THRESHOLD)]

\* A request on any collections, with any text, key and model behaviour.
InitAnalysis ==
    /\ SyncIdle /\ IngestIdle /\ HookIdle /\ now = 3 /\ faults = 0
    /\ apiKey \in BOOLEAN
    /\ query \in Queries
    /\ prPool \in Pools(MaxPool - 1)
    /\ commitPool \in Pools(1)
    /\ ticketPool \in {<< >>, <<Doc(SEARCH_THRESHOLD)>>, ManyTickets}
    /\ llm \in LLMOutcomes
    /\ an = IdleRequest
    /\ srch = NoSearch

SpecAnalysis == InitAnalysis /\ [][NextAnalysis]_vars

\* A search function called with any threshold and limit on any collection.
Search(fn, threshold, limit) ==
    /\ srch = NoSearch
    /\ srch' = SearchCall(fn, threshold, limit,
                          IF fn = "findSimilarByEmbedding"
                          THEN findSimilarByEmbedding(prPool, threshold, limit)
                          ELSE searchSimilar(prPool, threshold, limit))
    /\ UNCHANGED <<apiKey, query, prPool, commitPool, ticketPool, llm, an,
                   ingestVars, hookVars, now, faults, jobVars>>

NextSearch ==
    \E fn \in SearchFunctions, threshold \in Sims, limit \in 0..(MaxPool + 1) :
        Search(fn, threshold, limit)

InitSearch ==
    /\ SyncIdle /\ IngestIdle /\ HookIdle /\ now = 3 /\ faults = 0
    /\ apiKey = TRUE
    /\ query = << >>
    /\ prPool \in Pools(MaxPool)
    /\ commitPool = << >>
    /\ ticketPool = << >>
    /\ llm = Throws
    /\ an = IdleRequest
    /\ srch = NoSearch

SpecSearch == InitSearch /\ [][NextSearch]_vars

(***************************************************************************)
(* Claims.                                                                 *)
(***************************************************************************)
Last(q) == q[Len(q)]
Range(q) == {q[i] : i \in 1..Len(q)}
IsTerminal(j) == j \in Started /\ job[j].status \in {"completed", "failed"}
\* syncRepoPRs of job j has returned its result.
HasReturned(j) == frame[j].pc \in {"allowedRepo", "done"} /\ syncError[j] = NoMsg

\* C1: the status of a job only ever goes pending -> running -> completed
\* or pending -> running -> failed.
C1_StatusTransitions ==
    \A j \in Started :
        statusLog[j] \in { <<"pending">>, <<"pending", "running">>,
                           <<"pending", "running", "completed">>,
                           <<"pending", "running", "failed">> }

\* C2: once a job is completed or failed, its status, progress, message and
\* completedAt never change again.
C2_TerminalImmutable ==
    \A j \in Started : terminal[j].set => job[j] = terminal[j].job

\* C3: when startSyncJob returns, the registry holds the job with status
\* pending and zeroed progress, and no page fetch has been waited for.
C3_ReturnsPending ==
    \A j \in Started :
        /\ returned[j].stored
        /\ returned[j].job.status = "pending"
        /\ returned[j].job.progress = NewJob(0, 0).progress
        /\ returned[j].awaiting = "fetchPage"

C6_LimitBoundsLookups ==
    \A j \in Started :
        job[j].limit > 0 => calls[j].lookups <= job[j].limit

\* C7: a PR that is persisted and needs no update (in particular one
\* persisted as merged and not older than the remote PR) is counted as
\* skipped, and the run fetches no files, asks for no embedding and writes
\* nothing for it.
C7_SkipTouchesNothing ==
    \A j \in Started :
        /\ frame[j].skipped = Cardinality(calls[j].skippedPRs)
        /\ \A k \in calls[j].skippedPRs :
              /\ k \notin calls[j].fetchedPRs
              /\ k \notin calls[j].embeddedPRs
              /\ k \notin calls[j].writtenPRs
              /\ store[k] = store0[k]
        /\ \A k \in calls[j].lookedPRs :
              /\ store0[k].present
              /\ store0[k].updatedAt >= remote[k].updated_at
              /\ store0[k].state = "merged"
              => k \in calls[j].skippedPRs

C7_Witness ==
    \E j \in Started :
        /\ 1 \in calls[j].skippedPRs
        /\ store0[1].state = "merged"
        /\ 2 \in calls[j].writtenPRs

\* C8: when every PR of a fetched, non-empty page is skipped, the run
\* fetches no further page and returns stoppedEarly = true.
C8_EarlyStop ==
    \A j \in Started :
        \A p \in 1..calls[j].pages :
            /\ PageOf(remote, p) # << >>
            /\ Range(PageOf(remote, p)) \subseteq calls[j].skippedPRs
            => /\ calls[j].pages = p
               /\ HasReturned(j)
               /\ frame[j].stoppedEarly

C8_Witness ==
    \E j \in Started :
        /\ HasReturned(j)
        /\ frame[j].stoppedEarly
        /\ calls[j].pages = 1
        /\ Len(remote) > perPage

\* C9: with limit 0, N remote PRs none of which is persisted, and no failing
\* call, the run writes every PR once and returns processed = N, updated =
\* 0, skipped = 0, stoppedEarly = false, after N \div perPage + 1 listing
\* fetches (which is ceil(N / perPage) when perPage does not divide N).
C9_AllNew ==
    \A j \in Started :
        /\ job[j].limit = 0
        /\ faults = 0
        /\ \A k \in 1..Len(remote) : ~store0[k].present
        /\ HasReturned(j)
        => /\ job[j].status = "completed"
           /\ job[j].progress.processed = Len(remote)
           /\ job[j].progress.updated = 0
           /\ job[j].progress.skipped = 0
           /\ job[j].progress.errors = << >>
           /\ ~frame[j].stoppedEarly
           /\ calls[j].pages = (Len(remote) \div perPage) + 1
           /\ calls[j].writes = Len(remote)
           /\ calls[j].writtenPRs = 1..Len(remote)
           /\ \A k \in 1..Len(remote) : store[k].present

C9_Witness ==
    \E j \in Started :
        /\ job[j].limit = 0
        /\ faults = 0
        /\ HasReturned(j)
        /\ Len(remote) = 2 * perPage + 1
        /\ job[j].progress.processed = Len(remote)
        /\ calls[j].pages = 3

\* C10: a failed file fetch or ingest of a PR is recorded as exactly one
\* entry of the errors list, and the loop goes on with the next PR.
C10_FailureRecorded ==
    \A j \in Started :
        \A k \in calls[j].failedPRs :
            frame[j].pc \notin {"fetchFiles", "ingest"} \/ frame[j].prs[frame[j].idx] # k
            => Cardinality({i \in 1..Len(frame[j].errors) : frame[j].errors[i] = PRError(k)}) = 1

\* C11: whatever PR ingestions ran, one after the other or interleaved, a
\* key that was written has exactly one document, and that document holds
\* every field of the last write applied for the key.
C11_OneRecordPerKey ==
    \A key \in PRKeys :
        LET ws == {i \in 1..Len(prWrites) : prWrites[i].upd.key = key} IN
        ws # {} =>
            /\ Cardinality(Matching(prDocs, key)) = 1
            /\ LET last == prWrites[CHOOSE i \in ws : \A k \in ws : k <= i].upd
                   doc  == prDocs[First(Matching(prDocs, key))]
               IN  \A n \in DOMAIN last : doc[n] = last[n]

\* Two calls of different functions for one key, the one made later writing
\* first, with different titles.
C11_Witness ==
    /\ Len(prWrites) = 2
    /\ prWrites[1].upd.key = prWrites[2].upd.key
    /\ prWrites[1].upd.title # prWrites[2].upd.title
    /\ prWrites[1].call > prWrites[2].call
    /\ ingests[1].fn # ingests[2].fn
    /\ Len(prDocs) = 1

\* C12: when no store call fails for a reason of its own, whatever the
\* interleaving of the commit ingestions, no sha has two documents and no
\* finished call reports a failure.
C12_DuplicateCommitSafe ==
    faults = 0 =>
        /\ \A sha \in SHAs :
              Cardinality({i \in 1..Len(commitDocs) : commitDocs[i].sha = sha}) <= 1
        /\ \A c \in Ingests : ingests[c].result # "failure"

\* C13: a finished job whose sync looked up at least one PR has emitted a
\* progress event between its started event and its terminal event.
C13_ProgressBroadcast ==
    \A j \in Started :
        IsTerminal(j) /\ calls[j].lookups > 0 =>
            \E i \in 2..(Len(events[j]) - 1) : events[j][i].type = "progress"

\* C14: every listener has been called, once and in order, with exactly
\* the events of each job that were emitted while it was registered for that
\* job, and with no event of a job it was not registered for.
C14_DeliveredToAll ==
    \A l \in Viewers, j \in Started :
        LET OfJob(d) == d.job = j
            For(e) == l \in e.listeners
            got == SelectSeq(delivered[l], OfJob)
            due == SelectSeq(events[j], For)
        IN  /\ Len(got) = Len(due)
            /\ \A i \in 1..Len(got) : got[i].type = due[i].type

\* C15: a job that is no longer in the registry is completed or failed and
\* its completedAt is more than the retention ago (so a pending or running
\* job is never deleted, and getSyncJob returns a finished job at least
\* until then); and a sweep leaves no job in the registry whose completedAt
\* is more than the retention ago.
C15_SweepExact ==
    /\ [](\A j \in Started :
            /\ j \notin syncJobs =>
                  /\ job[j].status \in {"completed", "failed"}
                  /\ job[j].completedAt # NoDate
                  /\ now - job[j].completedAt > JOB_RETENTION_MS
            /\ j \in syncJobs => getSyncJob(j) = job[j])
    /\ [][cleanupOldJobs =>
            \A j \in Started :
                j \in syncJobs' <=>
                    /\ j \in syncJobs
                    /\ ~(/\ job[j].completedAt # NoDate
                         /\ now - job[j].completedAt > JOB_RETENTION_MS)]_vars

\* A sweep has deleted a finished job and kept a running one and a finished
\* one that is exactly the retention old.
C15_Witness ==
    \E i, j \in Started :
        /\ i \notin syncJobs
        /\ j \in syncJobs
        /\ job[j].status = "running"
        /\ now - job[i].completedAt = JOB_RETENTION_MS + 1

\* analyzeWithLLM has returned to analyzeError.
LLMReturned == an.pc = "cache" \/ (an.pc = "done" /\ an.result # NoAnalysis)

\* C16: when getGenAI or the invocation throws, or the response does not
\* parse, analyzeWithLLM returns (the request is answered with 200) a result
\* with status unknown, confidence 0.3 and one related entry per match, in
\* the order of the matches, a related PR's relevanceScore being the match's
\* similarity.
C16_FallbackOnFailure ==
    LLMReturned /\ (~apiKey \/ llm.throws \/ ~llm.json) =>
        /\ an.result.status = "unknown"
        /\ an.result.confidence = FALLBACK_CONFIDENCE
        /\ Len(an.result.relatedPRs) = Len(an.prs)
        /\ \A i \in 1..Len(an.prs) :
              /\ an.result.relatedPRs[i].id = an.prs[i].id
              /\ an.result.relatedPRs[i].relevanceScore = an.prs[i].sim
        /\ Len(an.result.relatedCommits) = Len(an.commits)
        /\ \A i \in 1..Len(an.commits) :
              an.result.relatedCommits[i].id = an.commits[i].id
        /\ Len(an.result.relatedTickets) = Len(an.tickets)
        /\ \A i \in 1..Len(an.tickets) :
              an.result.relatedTickets[i].id = an.tickets[i].id
        /\ an.pc = "done" => an.http = 200 /\ an.analysis = an.result

\* The invocation threw with the key configured, two PRs of different
\* similarity, a commit and a ticket matched, and the request was answered.
C16_Witness ==
    /\ an.pc = "done"
    /\ apiKey /\ llm.throws
    /\ Len(an.prs) = 2 /\ an.prs[1].sim > an.prs[2].sim
    /\ Len(an.commits) = 1 /\ Len(an.tickets) = 1
    /\ an.analysis.shape = "fallback"

\* C17: a request made without GOOGLE_AI_API_KEY is answered with 503.
C17_MissingKeyIs503 ==
    ~apiKey /\ an.pc = "done" => an.http = 503

\* C18: what analyzeWithLLM returns has a status of the four and a
\* confidence in [0, 1], and is the fallback when the response parsed to a
\* value that is no AnalysisResult.
C18_WellFormedResult ==
    LLMReturned =>
        /\ an.result.status \in Statuses
        /\ an.result.confidence \in 0..10
        /\ llm.value.shape # "AnalysisResult" => an.result.shape = "fallback"

\* C19: the list a search returns is non-increasing in similarity, holds
\* only documents of the collection at or above the threshold, each once,
\* is no longer than the limit, leaves out no qualifying document that is
\* strictly more similar than a returned one, and keeps documents of equal
\* similarity in the order of the collection.
C19_SearchOrdering ==
    srch.fn # "none" =>
        LET out == srch.out
            qualifying == {k \in 1..Len(prPool) :
                              prPool[k].embedded /\ prPool[k].sim >= srch.threshold}
            ids == {out[i].id : i \in 1..Len(out)}
        IN  /\ \A i \in 1..(Len(out) - 1) : out[i].sim >= out[i + 1].sim
            /\ \A i \in 1..Len(out) :
                  out[i].id \in qualifying /\ out[i].sim = prPool[out[i].id].sim
            /\ Cardinality(ids) = Len(out)
            /\ Len(out) <= srch.limit
            /\ \A k \in qualifying \ ids :
                  \A r \in ids : prPool[k].sim <= prPool[r].sim
            /\ \A i, k \in 1..Len(out) :
                  i < k /\ out[i].sim = out[k].sim => out[i].id < out[k].id

\* Three qualifying documents, the first the least similar and the other
\* two equally similar, searched with limit 2.
C19_Witness ==
    /\ srch.fn = "searchSimilarPRs"
    /\ srch.limit = 2
    /\ Len(prPool) = 3
    /\ prPool[1].sim = srch.threshold
    /\ Len(srch.out) = 2
    /\ srch.out[1].id = 2 /\ srch.out[2].id = 3
    /\ srch.out[1].sim = srch.out[2].sim

\* C20: the limit of the request's searches is min(N, 50) when the text
\* names a quantity N >= 1, and 10 when it names none; the PR and commit
\* searches return no more than that.
C20_LimitOverride ==
    an.pc \in {"search", "context", "cache"} =>
        LET named == {i \in 1..(Len(query) - 1) :
                         query[i].digits /\ query[i + 1].w \in UnitWords}
        IN  /\ named = {} => an.limit = DEFAULT_LIMIT
            /\ named # {} /\ query[First(named)].n >= 1 =>
                  an.limit = Min(query[First(named)].n, LIMIT_CAP)
            /\ Len(an.prs) <= an.limit
            /\ Len(an.commits) <= an.limit

\* The signature GitHub computes for a request: over the body as sent.
ValidSignature(req) == HmacSha256(req.body)

\* C21: with a secret configured, a request whose signature header is
\* missing, of another length or different from the HMAC of its body is
\* answered 401 and starts no ingestion call (so nothing is fetched,
\* embedded or written for it); without a secret no request is rejected.
C21_SignatureRequired ==
    /\ \A h \in Hooks :
          /\ secret /\ hooks[h].req.signature # ValidSignature(hooks[h].req)
                => hooks[h].status = 401 /\ hooks[h].call = 0
          /\ ~secret => hooks[h].status # 401
    /\ Len(ingests) = Cardinality({h \in Hooks : hooks[h].call # 0})
    /\ \A c \in Ingests : \E h \in Hooks : hooks[h].call = c
    /\ \A w \in 1..Len(prWrites) : prWrites[w].call \in Ingests
    /\ \A d \in 1..Len(commitDocs) : commitDocs[d].call \in Ingests

\* The PRs whose ingest failed in the sync of job j.
IngestFailed(j) ==
    {k \in calls[j].fetchedPRs \ calls[j].writtenPRs :
        frame[j].pc \notin {"fetchFiles", "ingest"} \/ frame[j].prs[frame[j].idx] # k}

\* Job j is a sync that ran to its end with no failing lookup or ingest.
CleanSync(j) ==
    /\ job[j].status = "completed"
    /\ frame[j].errors = << >>
    /\ IngestFailed(j) = {}

C23_NeedsUpdate ==
    \A j \in Started :
        \A k \in calls[j].lookedPRs :
            LET rec == store0[k]
                pr  == remote[k]
                needs == \/ ~rec.present
                         \/ rec.updatedAt # NoDate /\ pr.updated_at > rec.updatedAt
                         \/ pr.merged_at /\ rec.state # "merged"
                going == \/ k \in calls[j].fetchedPRs
                         \/ frame[j].pc = "fetchFiles" /\ frame[j].prs[frame[j].idx] = k
            IN  /\ needs <=> going
                /\ ~needs <=> k \in calls[j].skippedPRs
                /\ k \in calls[j].skippedPRs => frame[j].skipped = 1 /\ store[k] = rec

\* A record without updatedAt of a PR that is not merged was skipped.
C23_Witness ==
    \E j \in Started :
        /\ 1 \in calls[j].skippedPRs
        /\ store0[1].updatedAt = NoDate
        /\ store0[1].state = "closed"
        /\ HasReturned(j)

\* C24: a run with a limit L > 0, even when no call fails, waits for no
\* page of the listing once processed + skipped has reached L.
C24_NoFetchAfterLimit ==
    \A j \in Started :
        faults = 0 /\ job[j].limit > 0 /\ frame[j].pc = "fetchPage" =>
            frame[j].processed + frame[j].skipped < job[j].limit

\* C25: the events of a job begin with its only started event and hold at
\* most one terminal event; a finished job has exactly one, the last event,
\* whose type and status are the job's status -- whether or not a listener
\* throws.
C25_OneTerminalEvent ==
    \A j \in Started :
        LET evs   == events[j]
            terms == {i \in 1..Len(evs) : evs[i].type \in {"completed", "failed"}}
        IN  /\ Len(evs) >= 1
            /\ evs[1].type = "started"
            /\ \A i \in 2..Len(evs) : evs[i].type # "started"
            /\ Cardinality(terms) <= 1
            /\ IsTerminal(j) =>
                  /\ terms = {Len(evs)}
                  /\ evs[Len(evs)].type = job[j].status
                  /\ evs[Len(evs)].status = job[j].status

\* C26: in every step that changes the status, progress, message or
\* completedAt of a job, the flow of that very job is resumed, and no other
\* job's entry or flow changes; starting a job changes no job there is.
C26_OwnJobOnly ==
    [][\A i \in Started :
          job'[i] # job[i] =>
              /\ JobStep(i)
              /\ \A k \in Started \ {i} : job'[k] = job[k] /\ frame'[k] = frame[k]]_vars

\* Two jobs on the same repo interleaved: one finished after writing the PR
\* while the other, which had looked the PR up before, is still running.
C26_Witness ==
    \E i, j \in Started :
        /\ i # j
        /\ job[i].status = "completed"
        /\ 1 \in calls[i].writtenPRs
        /\ job[j].status = "running"
        /\ frame[j].pc \in {"fetchFiles", "ingest"}

\* C27: in a request whose text names no quantity the PR and commit
\* searches are called with limit 10 and the ticket search with limit 5,
\* which returns at most 5 tickets; every match of the three is at or above
\* the threshold 0.3.
C27_TicketLimit ==
    an.pc \in {"search", "context", "cache"} /\ MatchPlaces(query) = {} =>
        /\ an.limit = DEFAULT_LIMIT
        /\ an.ticketLimit = TICKET_DEFAULT_LIMIT
        /\ Len(an.tickets) <= TICKET_DEFAULT_LIMIT
        /\ \A i \in 1..Len(an.prs) : an.prs[i].sim >= SEARCH_THRESHOLD
        /\ \A i \in 1..Len(an.commits) : an.commits[i].sim >= SEARCH_THRESHOLD
        /\ \A i \in 1..Len(an.tickets) : an.tickets[i].sim >= SEARCH_THRESHOLD

\* The PRs the run of job j has counted.
Counted(f) == f.processed + f.updated + f.skipped + Len(f.errors)

\* C28: whenever the run is between two PRs, and when it has returned,
\* processed + updated + skipped + the number of errors is the number of
\* lookups it attempted (one less while a PR is being fetched or ingested);
\* and no counter ever decreases.
C28_CountedOnce ==
    /\ [](\A j \in Started :
            /\ frame[j].pc \in {"fetchFiles", "ingest"} =>
                  Counted(frame[j]) = calls[j].lookups - 1
            /\ frame[j].pc \notin {"fetchFiles", "ingest"} =>
                  Counted(frame[j]) = calls[j].lookups
            /\ job[j].status = "completed" /\ ~listenerThrew[j] =>
                  /\ job[j].progress.processed = frame[j].processed
                  /\ job[j].progress.updated = frame[j].updated
                  /\ job[j].progress.skipped = frame[j].skipped
                  /\ job[j].progress.errors = frame[j].errors)
    /\ [][\A j \in Started :
            /\ frame'[j].processed >= frame[j].processed
            /\ frame'[j].updated >= frame[j].updated
            /\ frame'[j].skipped >= frame[j].skipped
            /\ Len(frame'[j].errors) >= Len(frame[j].errors)]_vars

\* A run returned after a failed lookup, a skipped PR and an updated one.
C28_Witness ==
    \E j \in Started :
        /\ HasReturned(j)
        /\ calls[j].lookups = 3
        /\ Len(frame[j].errors) = 1
        /\ frame[j].skipped = 1
        /\ frame[j].updated = 1

\* C29: when all the jobs started have run to their end, no call having
\* failed and no listener having thrown, prCount is the number of PRs that
\* are persisted now and were not at start-up.
C29_PrCountExact ==
    /\ Started # {}
    /\ \A j \in Started : frame[j].pc = "done" /\ job[j].status = "completed"
    /\ \A j \in Started : ~listenerThrew[j]
    /\ faults = 0
    => prCount = Cardinality({k \in PRNumbers : store[k].present /\ ~store0[k].present})

\* C30: whenever startSyncJob has returned a job, the job was running and
\* its started event emitted, to no listener; no listener is ever called
\* with a started event, and a listener is called with another event of a
\* job only if it was registered on the job when that event was emitted --
\* so one that registers after the terminal event gets nothing.
C30_StartedBeforeReturn ==
    \A j \in Started :
        /\ returned[j].job.status = "running"
        /\ events[j] # << >>
        /\ events[j][1].type = "started"
        /\ events[j][1].listeners = {}
        /\ \A l \in Viewers :
              \A i \in 1..Len(delivered[l]) :
                  delivered[l][i].job = j =>
                      /\ delivered[l][i].type # "started"
                      /\ \E e \in 1..Len(events[j]) :
                            /\ events[j][e].type = delivered[l][i].type
                            /\ l \in events[j][e].listeners

\* One listener registered while the sync ran and got completed; another
\* registered on the finished job and got nothing.
C30_Witness ==
    \E j \in Started :
        /\ job[j].status = "completed"
        /\ Subscribed(j) = Viewers
        /\ \E l \in Viewers :
              /\ delivered[l] = <<[job |-> j, type |-> "completed"]>>
              /\ \A k \in Viewers \ {l} : delivered[k] = << >>

====
